---------------------------- MODULE Spec2Model ----------------------------
(***************************************************************************)
(* Weather aggregation and crop-suitability service                        *)
(* (src/data_prep.py, src/app.py).                                         *)
(*                                                                         *)
(* Units.  Every numeric cell of a weather row is an integer.  precip is   *)
(* kept in tenths of a millimetre, so that the source's 4.0 and 0.5 are 40 *)
(* and 5; the catalog keeps the source's numbers and Tenths() converts     *)
(* them where the source compares a precip with a catalog bound.  A mean   *)
(* is the pair [sum, n] of the non-missing cells; comparisons with a mean  *)
(* are cross-multiplied, and a mean over no cell is NaN, for which every   *)
(* comparison is false, as in Python.                                      *)
(*                                                                         *)
(* Text is a sequence of one-character strings, so that str.lower() is     *)
(* computed character by character.                                        *)
(***************************************************************************)
EXTENDS Integers, Sequences, FiniteSets, TLC

VARIABLES
    fn,                 \* the last application of a pure function: name, inputs, result
    phase,              \* "start" before app.py line 8 has run, "serving" after
    folder,             \* the weather_data directory: whether it exists, its CSV files
    workers,            \* the number of request threads of the server
    frames,             \* the DataFrame objects: frames[0] is the global weather,
                        \* frames[t] the one thread t's local_weather is bound to
    CROP_THRESHOLDS,    \* the catalog dict of data_prep
    pc,                 \* pc[t]: where thread t stands in its handler
    req,                \* req[t]: the handler's arguments and locals
    last,               \* the response the latest step sent, with the locals it was
                        \* built from; NoResponse when the step sent none
    users,              \* table users: email -> username and password_hash
    otps,               \* table password_reset_otps: the rows in id order
    wall_clock,         \* datetime.datetime.now(), in minutes
    resets              \* history: the ids of the OTP rows that reset_password
                        \* changed a password with, in order

authVars == <<users, otps, wall_clock, resets>>

vars == <<fn, phase, folder, workers, frames, CROP_THRESHOLDS, pc, req, last, authVars>>

serverVars == <<phase, folder, workers, frames, CROP_THRESHOLDS, pc, req, last, authVars>>

----------------------------------------------------------------------------
(* Numbers with a missing value *)

\* The missing cell of a CSV (float NaN): no comparison with it is true.
NaN == -999999

IsNaN(v) == v = NaN

Gt(a, b) == ~IsNaN(a) /\ ~IsNaN(b) /\ a > b
Lt(a, b) == ~IsNaN(a) /\ ~IsNaN(b) /\ a < b
Ge(a, b) == ~IsNaN(a) /\ ~IsNaN(b) /\ a >= b
Le(a, b) == ~IsNaN(a) /\ ~IsNaN(b) /\ a <= b

\* precip cells are tenths; a catalog bound v (whole units) on that scale.
Tenths(v) == v * 10

----------------------------------------------------------------------------
(* Text *)

UpperCase ==
    <<"A", "B", "C", "D", "E", "F", "G", "H", "I", "J", "K", "L", "M",
      "N", "O", "P", "Q", "R", "S", "T", "U", "V", "W", "X", "Y", "Z">>

LowerCase ==
    <<"a", "b", "c", "d", "e", "f", "g", "h", "i", "j", "k", "l", "m",
      "n", "o", "p", "q", "r", "s", "t", "u", "v", "w", "x", "y", "z">>

LowerChar(c) ==
    IF \E i \in DOMAIN UpperCase : UpperCase[i] = c
        THEN LowerCase[CHOOSE i \in DOMAIN UpperCase : UpperCase[i] = c]
        ELSE c

\* str.lower()
Lower(s) == [i \in 1..Len(s) |-> LowerChar(s[i])]

tea == <<"t", "e", "a">>
coffee == <<"c", "o", "f", "f", "e", "e">>
wheat == <<"w", "h", "e", "a", "t">>
bananas == <<"b", "a", "n", "a", "n", "a", "s">>
rice == <<"r", "i", "c", "e">>
maize == <<"m", "a", "i", "z", "e">>
beans == <<"b", "e", "a", "n", "s">>
sukuma_wiki == <<"s", "u", "k", "u", "m", "a", "_", "w", "i", "k", "i">>

\* str.replace(' ', '_'), then str.replace(',', ''), then str.lower()
RECURSIVE ReplaceSpaces(_)
ReplaceSpaces(s) ==
    IF s = <<>> THEN <<>>
    ELSE <<IF Head(s) = " " THEN "_" ELSE Head(s)>> \o ReplaceSpaces(Tail(s))

RECURSIVE RemoveCommas(_)
RemoveCommas(s) ==
    IF s = <<>> THEN <<>>
    ELSE (IF Head(s) = "," THEN <<>> ELSE <<Head(s)>>) \o RemoveCommas(Tail(s))

RECURSIVE CommasToSpaces(_)
CommasToSpaces(s) ==
    IF s = <<>> THEN <<>>
    ELSE <<IF Head(s) = "," THEN " " ELSE Head(s)>> \o CommasToSpaces(Tail(s))

\* Mutant: a comma becomes a space and is not removed
CleanString_comma_to_space(s) == Lower(CommasToSpaces(ReplaceSpaces(s)))

\* data_prep.clean_string_column, on one cell
CleanString(s) == Lower(RemoveCommas(ReplaceSpaces(s)))

\* The rank of a character in the order Python compares strings by
CharRank(c) ==
    IF c = "_" THEN 0
    ELSE IF \E i \in DOMAIN LowerCase : LowerCase[i] = c
        THEN CHOOSE i \in DOMAIN LowerCase : LowerCase[i] = c
        ELSE 0 - 1

RECURSIVE StrLess(_, _)
\* a < b on str
StrLess(a, b) ==
    IF b = <<>> THEN FALSE
    ELSE IF a = <<>> THEN TRUE
    ELSE IF Head(a) # Head(b) THEN CharRank(Head(a)) < CharRank(Head(b))
    ELSE StrLess(Tail(a), Tail(b))

Range(seq) == {seq[i] : i \in DOMAIN seq}

Count(seq, v) == Cardinality({i \in DOMAIN seq : seq[i] = v})

\* Series.mode(): the most frequent values, sorted
ModeValues(seq) ==
    {v \in Range(seq) : \A w \in Range(seq) : Count(seq, w) <= Count(seq, v)}

Unknown == <<"U", "n", "k", "n", "o", "w", "n">>

\* Mutant: of the most frequent values, the one that comes first in the group
MostFrequent_first_seen(seq) ==
    IF ModeValues(seq) = {} THEN Unknown
    ELSE seq[CHOOSE i \in DOMAIN seq :
                /\ seq[i] \in ModeValues(seq)
                /\ \A j \in 1..(i - 1) : seq[j] \notin ModeValues(seq)]

\* mode_values.iloc[0] if not mode_values.empty else "Unknown"
MostFrequent(seq) ==
    IF ModeValues(seq) = {} THEN Unknown
    ELSE CHOOSE v \in ModeValues(seq) : \A w \in ModeValues(seq) \ {v} : StrLess(v, w)

RECURSIVE Unique(_)
\* Series.unique(): the values in the order of their first appearance
Unique(seq) ==
    IF seq = <<>> THEN <<>>
    ELSE LET front == Unique(SubSeq(seq, 1, Len(seq) - 1))
             v == seq[Len(seq)]
         IN  IF v \in Range(front) THEN front ELSE Append(front, v)

RECURSIVE Sorted(_)
\* The numbers of a set in ascending order
Sorted(S) ==
    IF S = {} THEN <<>>
    ELSE LET m == CHOOSE x \in S : \A y \in S : x <= y
         IN  <<m>> \o Sorted(S \ {m})

----------------------------------------------------------------------------
(* Calendar dates (datetime, timedelta) *)

Date(y, m, d) == [year |-> y, month |-> m, day |-> d]

IsLeap(y) == (y % 4 = 0 /\ y % 100 # 0) \/ y % 400 = 0

DaysInMonth(y, m) ==
    IF m = 2 THEN (IF IsLeap(y) THEN 29 ELSE 28)
    ELSE IF m \in {4, 6, 9, 11} THEN 30
    ELSE 31

\* datetime(y, m, d) raises ValueError unless this holds
IsValidDate(y, m, d) == m \in 1..12 /\ d \in 1..DaysInMonth(y, m)

\* The days of year y before its month m
DaysBeforeMonth(y, m) ==
    LET common == <<0, 31, 59, 90, 120, 151, 181, 212, 243, 273, 304, 334>>
    IN  common[m] + (IF m > 2 /\ IsLeap(y) THEN 1 ELSE 0)

\* The days before 1 January of year y, counted from 0001-01-01
DaysBeforeYear(y) ==
    LET p == y - 1 IN 365 * p + (p \div 4) - (p \div 100) + (p \div 400)

\* date.toordinal(): 0001-01-01, a Monday, is day 1
ToOrdinal(date) == DaysBeforeYear(date.year) + DaysBeforeMonth(date.year, date.month) + date.day

\* The years date arithmetic is carried out in
CalendarYears == 2023..2026

\* date.fromordinal()
FromOrdinal(n) ==
    LET y == CHOOSE yy \in CalendarYears :
                DaysBeforeYear(yy) < n /\ n <= DaysBeforeYear(yy + 1)
        rest == n - DaysBeforeYear(y)
        m == CHOOSE mm \in 1..12 :
                DaysBeforeMonth(y, mm) < rest /\ rest <= DaysBeforeMonth(y, mm) + DaysInMonth(y, mm)
    IN  Date(y, m, rest - DaysBeforeMonth(y, m))

\* date + timedelta(days = k)
AddDays(date, k) == FromOrdinal(ToOrdinal(date) + k)

\* date.weekday(): Monday is 0, Sunday is 6
Weekday(date) == (ToOrdinal(date) + 6) % 7

\* strftime("%m-%d"): the zero-padded month and day, kept as the pair
MonthDay(date) == <<date.month, date.day>>

----------------------------------------------------------------------------
(* The threshold catalog, as the module defines it *)

Threshold(icon, tlo, thi, plo, phi, hlo, hhi, slo, shi) ==
    [icon |-> icon,
     min_temp |-> tlo, max_temp |-> thi,
     min_precip |-> plo, max_precip |-> phi,
     min_humidity |-> hlo, max_humidity |-> hhi,
     min_solarradiation |-> slo, max_solarradiation |-> shi]

CropNames == {tea, coffee, wheat, bananas, rice, maize, beans, sukuma_wiki}

InitialCropThresholds ==
    [c \in CropNames |->
        CASE c = tea         -> Threshold("seedling", 13, 25, 400, 800, 70, 90, 10, 20)
          [] c = coffee      -> Threshold("", 15, 24, 300, 600, 60, 80, 12, 22)
          [] c = wheat       -> Threshold("sheaf", 15, 20, 300, 900, 50, 60, 14, 25)
          [] c = bananas     -> Threshold("banana", 20, 30, 500, 900, 60, 90, 14, 25)
          [] c = rice        -> Threshold("sheaf", 20, 35, 600, 1200, 70, 90, 14, 26)
          [] c = maize       -> Threshold("corn", 18, 30, 400, 700, 50, 80, 15, 27)
          [] c = beans       -> Threshold("beans", 15, 27, 300, 600, 50, 80, 13, 24)
          [] c = sukuma_wiki -> Threshold("leafy_green", 15, 28, 300, 700, 55, 85, 13, 24)]

----------------------------------------------------------------------------
(* data_prep.group_weather_conditions *)

rain == <<"r", "a", "i", "n">>
overcast == <<"o", "v", "e", "r", "c", "a", "s", "t">>
sunny == <<"s", "u", "n", "n", "y">>
partially_cloudy ==
    <<"p", "a", "r", "t", "i", "a", "l", "l", "y", "_", "c", "l", "o", "u", "d", "y">>
clear == <<"c", "l", "e", "a", "r">>

ConditionLabels == {rain, overcast, sunny, partially_cloudy, clear}

\* Mutant: the cloud-cover rule tried before the rain rule
group_weather_conditions_cloud_first(row) ==
    IF Gt(row.cloudcover, 80) THEN overcast
    ELSE IF Gt(row.precip, 40) THEN rain
    ELSE IF Lt(row.cloudcover, 15) /\ Gt(row.solarradiation, 500) THEN sunny
    ELSE IF Gt(row.cloudcover, 40) \/ Gt(row.humidity, 70) THEN partially_cloudy
    ELSE clear

group_weather_conditions(row) ==
    IF Gt(row.precip, 40) THEN rain
    ELSE IF Gt(row.cloudcover, 80) THEN overcast
    ELSE IF Lt(row.cloudcover, 15) /\ Gt(row.solarradiation, 500) THEN sunny
    ELSE IF Gt(row.cloudcover, 40) \/ Gt(row.humidity, 70) THEN partially_cloudy
    ELSE clear

get_season(month) ==
    IF month \in {1, 2, 3} THEN "JFM"
    ELSE IF month \in {4, 5, 6} THEN "AMJ"
    ELSE IF month \in {7, 8, 9} THEN "JAS"
    ELSE "OND"

----------------------------------------------------------------------------
(* Frames: a pandas DataFrame is its set of columns and its rows in          *)
(* positional order; a row is a record with one field per column.            *)

Frame(columns, rows) == [columns |-> columns, rows |-> rows]

\* pd.DataFrame(): no column, no row
EmptyFrame == Frame({}, <<>>)

RECURSIVE SumCells(_, _)
SumCells(rows, col) ==
    IF rows = <<>> THEN [sum |-> 0, n |-> 0]
    ELSE LET rest == SumCells(Tail(rows), col)
             v == Head(rows)[col]
         IN  IF IsNaN(v) THEN rest ELSE [sum |-> rest.sum + v, n |-> rest.n + 1]

\* Series.mean(): the missing cells are skipped; NaN (n = 0) over no cell
Mean(frame, col) == SumCells(frame.rows, col)

\* mean > k, mean < k, ... for a number k on the cells' scale
MeanGt(m, k) == m.n > 0 /\ m.sum > k * m.n
MeanLt(m, k) == m.n > 0 /\ m.sum < k * m.n
MeanGe(m, k) == m.n > 0 /\ m.sum >= k * m.n
MeanLe(m, k) == m.n > 0 /\ m.sum <= k * m.n

----------------------------------------------------------------------------
(* data_prep.load_weather_data *)

\* The columns of a source file besides its index column, datetime
CsvColumns ==
    {"name", "tempmax", "tempmin", "temp", "humidity", "precip",
     "solarradiation", "cloudcover", "windspeed"}

\* One parsed row: row[c] for a column c, and the index value row.datetime
WithField(row, col, v) ==
    [k \in DOMAIN row \cup {col} |-> IF k = col THEN v ELSE row[k]]

RECURSIVE Concat(_)
\* pd.concat(df_list, axis=0): the files' rows in the order of the list
Concat(files) == IF files = <<>> THEN <<>> ELSE Head(files) \o Concat(Tail(files))

\* weather.apply(group_weather_conditions, axis=1) and the two
\* clean_string_column calls, on one row
Conditioned(row) ==
    LET labelled == WithField(row, "conditions", group_weather_conditions(row))
        cleaned == WithField(labelled, "conditions", CleanString(labelled.conditions))
    IN  WithField(cleaned, "name", CleanString(cleaned.name))

\* data_prep.group_seasons, on one row
Seasoned(row) ==
    LET y == WithField(row, "year", row.datetime.year)
        m == WithField(y, "month", row.datetime.month)
    IN  WithField(m, "season", get_season(m.month))

LoadedColumns == CsvColumns \cup {"conditions", "year", "month", "season"}

\* csv_files is glob's list, empty for a missing directory as for one without
\* a CSV file; each file stands for its parsed rows.
load_weather_data(csv_files) ==
    IF csv_files = <<>>
        THEN EmptyFrame
        ELSE Frame(LoadedColumns,
                   [i \in DOMAIN Concat(csv_files) |->
                        Seasoned(Conditioned(Concat(csv_files)[i]))])

----------------------------------------------------------------------------
(* app.get_recommendations *)

RequiredCols == {"temp", "precip", "humidity", "solarradiation"}

\* weather_data['precip'].iloc[-1] if not weather_data['precip'].empty else 0
RecentPrecip(weather_data) ==
    IF weather_data.rows = <<>> THEN 0
    ELSE weather_data.rows[Len(weather_data.rows)].precip

\* recent_precip > 0.5
IsCurrentlyRaining(recent_precip) == Gt(recent_precip, 5)

\* The pivot the planting chain reads from the threshold: max_temp = threshold["max_temp"]
PlantingTempPivot(threshold) == threshold.max_temp

\* Mutant: the chain ends at 'Temp too low', the low-rainfall branch is lost
PlantingMessages_no_low_rain(avg_temp, avg_precip, recent_precip, threshold) ==
    LET pivot == PlantingTempPivot(threshold)
        min_precip == Tenths(threshold.min_precip)
        max_precip == Tenths(threshold.max_precip)
    IN  IF MeanGt(avg_precip, max_precip)
            THEN <<"High avg rain. Good conditions for planting {crop}.">>
        ELSE IF MeanGe(avg_temp, pivot) /\ MeanGe(avg_precip, min_precip)
                    /\ MeanLe(avg_precip, max_precip)
            THEN <<"Good conditions for planting {crop}.">>
        ELSE IF MeanLt(avg_temp, pivot)
            THEN <<"Temp too low. Wait for warmer conditions.">>
        ELSE <<>>

\* Mutant: 'Temp too low' is an if of its own and not a branch of the chain
PlantingMessages_separate_if(avg_temp, avg_precip, recent_precip, threshold) ==
    LET pivot == PlantingTempPivot(threshold)
        min_precip == Tenths(threshold.min_precip)
        max_precip == Tenths(threshold.max_precip)
    IN  (IF MeanGt(avg_precip, max_precip)
            THEN <<"High avg rain. Good conditions for planting {crop}.">>
         ELSE IF MeanGe(avg_temp, pivot) /\ MeanGe(avg_precip, min_precip)
                    /\ MeanLe(avg_precip, max_precip)
            THEN <<"Good conditions for planting {crop}.">>
         ELSE <<>>)
        \o (IF MeanLt(avg_temp, pivot)
                THEN <<"Temp too low. Wait for warmer conditions.">>
             ELSE IF MeanLt(avg_precip, min_precip)
                THEN IF IsCurrentlyRaining(recent_precip)
                        THEN <<"Avg rain low, but currently raining. Monitor closely.">>
                        ELSE <<"Rainfall too low. Irrigation may be needed.">>
             ELSE <<>>)

PlantingMessages(avg_temp, avg_precip, recent_precip, threshold) ==
    LET pivot == PlantingTempPivot(threshold)
        min_precip == Tenths(threshold.min_precip)
        max_precip == Tenths(threshold.max_precip)
    IN  IF MeanGt(avg_precip, max_precip)
            THEN <<"High avg rain. Good conditions for planting {crop}.">>
        ELSE IF MeanGe(avg_temp, pivot) /\ MeanGe(avg_precip, min_precip)
                    /\ MeanLe(avg_precip, max_precip)
            THEN <<"Good conditions for planting {crop}.">>
        ELSE IF MeanLt(avg_temp, pivot)
            THEN <<"Temp too low. Wait for warmer conditions.">>
        ELSE IF MeanLt(avg_precip, min_precip)
            THEN IF IsCurrentlyRaining(recent_precip)
                    THEN <<"Avg rain low, but currently raining. Monitor closely.">>
                    ELSE <<"Rainfall too low. Irrigation may be needed.">>
        ELSE <<>>

\* avg_precip < 0.5 * min_precip, cross-multiplied by 2
IrrigationMessages(avg_precip, recent_precip, threshold) ==
    LET veryLow == avg_precip.n > 0
                    /\ 2 * avg_precip.sum < Tenths(threshold.min_precip) * avg_precip.n
    IN  IF veryLow /\ ~IsCurrentlyRaining(recent_precip)
            THEN <<"Very low avg rain. Apply irrigation.">>
        ELSE IF veryLow /\ IsCurrentlyRaining(recent_precip)
            THEN <<"Very low avg rain, but currently raining. Monitor water levels.">>
        ELSE <<>>

\* avg_precip > max_precip * 1.2 (times 10: 12 * max_precip); recent_precip > max_precip * 0.5
WaterloggingMessages(avg_precip, recent_precip, threshold) ==
    IF avg_precip.n > 0 /\ 10 * avg_precip.sum > 12 * Tenths(threshold.max_precip) * avg_precip.n
        THEN <<"Excessive avg rain. High waterlogging risk. Ensure drainage.">>
    ELSE IF ~IsNaN(recent_precip) /\ 2 * recent_precip > Tenths(threshold.max_precip)
        THEN <<"High recent rain. Potential waterlogging risk. Monitor.">>
    ELSE <<>>

FertilizerMessages(avg_temp, avg_precip, recent_precip) ==
    LET fair == MeanGe(avg_temp, 10) /\ MeanLe(avg_temp, 29) /\ MeanLt(avg_precip, Tenths(10))
    IN  IF fair /\ ~IsCurrentlyRaining(recent_precip) /\ Lt(recent_precip, Tenths(5))
            THEN <<"Favorable for fertilizer application.">>
        ELSE IF fair /\ IsCurrentlyRaining(recent_precip)
            THEN <<"Favorable for fertilizer, but currently raining. Apply after rain subsides.">>
        ELSE <<>>

HarvestingMessages(avg_precip, avg_humidity, threshold) ==
    IF MeanLe(avg_precip, Tenths(threshold.min_precip))
            /\ MeanLe(avg_humidity, threshold.max_humidity)
        THEN <<"Good for harvesting {crop}.">>
    ELSE <<>>

\* The callers of this repository pass a DataFrame, so the isinstance
\* conversion of lines 26-30 is never taken.
get_recommendations(weather_data, crop, catalog) ==
    IF crop \notin DOMAIN catalog
        THEN [kind |-> "error", error |-> "Unsupported crop"]
    ELSE IF ~(RequiredCols \subseteq weather_data.columns)
        THEN [kind |-> "error", error |-> "Missing required weather data columns"]
    ELSE
        LET avg_temp == Mean(weather_data, "temp")
            avg_precip == Mean(weather_data, "precip")
            avg_humidity == Mean(weather_data, "humidity")
            threshold == catalog[crop]
            recent_precip == RecentPrecip(weather_data)
            fired == PlantingMessages(avg_temp, avg_precip, recent_precip, threshold)
                        \o IrrigationMessages(avg_precip, recent_precip, threshold)
                        \o WaterloggingMessages(avg_precip, recent_precip, threshold)
                        \o FertilizerMessages(avg_temp, avg_precip, recent_precip)
                        \o HarvestingMessages(avg_precip, avg_humidity, threshold)
        IN  [kind |-> "ok",
             recommendations |->
                IF fired = <<>>
                    THEN <<"No specific recommendations for current conditions.">>
                    ELSE fired]

----------------------------------------------------------------------------
(* app.is_suitable_crop *)

InRange(lo, v, hi) == Le(lo, v) /\ Le(v, hi)

RowScore(row, crop_thresholds) ==
    (IF InRange(crop_thresholds.min_temp, row.temp, crop_thresholds.max_temp) THEN 1 ELSE 0)
    + (IF InRange(Tenths(crop_thresholds.min_precip), row.precip,
                  Tenths(crop_thresholds.max_precip)) THEN 1 ELSE 0)
    + (IF InRange(crop_thresholds.min_humidity, row.humidity,
                  crop_thresholds.max_humidity) THEN 1 ELSE 0)
    + (IF InRange(crop_thresholds.min_solarradiation, row.solarradiation,
                  crop_thresholds.max_solarradiation) THEN 1 ELSE 0)

\* Mutant: half of the parameters are enough
ScoreQualifies_half(score) == 100 * score >= 50 * 4

\* score / total >= 0.75 with total = 4
ScoreQualifies(score) == 100 * score >= 75 * 4

RECURSIVE SuitableSeasons(_, _)
SuitableSeasons(rows, crop_thresholds) ==
    IF rows = <<>> THEN <<>>
    ELSE LET row == Head(rows)
             score == RowScore(row, crop_thresholds)
         IN  (IF ScoreQualifies(score)
                THEN <<[year |-> row.year, season |-> row.season, score |-> score]>>
                ELSE <<>>)
             \o SuitableSeasons(Tail(rows), crop_thresholds)

is_suitable_crop(weather_data, crop_thresholds) ==
    Len(SuitableSeasons(weather_data.rows, crop_thresholds)) > 0

----------------------------------------------------------------------------
(* The source directory and the requests' inputs *)

Thika == <<"T", "h", "i", "k", "a">>
VoiKE == <<"V", "o", "i", ",", " ", "K", "E">>
thika == <<"t", "h", "i", "k", "a">>
voi_ke == <<"v", "o", "i", "_", "k", "e">>
lamu == <<"l", "a", "m", "u">>

CsvRow(name, date, temp, humidity, precip, solarradiation, cloudcover) ==
    [name |-> name, datetime |-> date,
     tempmax |-> temp + 4, tempmin |-> temp - 5, temp |-> temp,
     humidity |-> humidity, precip |-> precip,
     solarradiation |-> solarradiation, cloudcover |-> cloudcover,
     windspeed |-> 12]

\* Three source files: two of one station, split in time, and one of another
ThikaLate ==
    <<CsvRow(Thika, Date(2024, 3, 24), 21, 75, 12, 15, 50),
      CsvRow(Thika, Date(2024, 3, 25), 22, 72, 52, 18, 90),
      CsvRow(Thika, Date(2025, 3, 24), 20, 78, 3, 16, 85)>>

ThikaEarly ==
    <<CsvRow(Thika, Date(2024, 3, 3), 19, 65, 0, 510, 10),
      CsvRow(Thika, Date(2024, 3, 4), 18, 62, 0, 20, 30)>>

VoiFile ==
    <<CsvRow(VoiKE, Date(2024, 3, 10), 29, 55, 2, 300, 20),
      CsvRow(VoiKE, Date(2025, 3, 24), 31, 45, NaN, 310, 10)>>

Permutations3(a, b, c) ==
    {<<a, b, c>>, <<a, c, b>>, <<b, a, c>>, <<b, c, a>>, <<c, a, b>>, <<c, b, a>>}

\* The directory: missing, without a CSV file, or the three files in any of
\* the orders glob may list them in
Folders ==
    {[exists |-> FALSE, csvs |-> <<>>], [exists |-> TRUE, csvs |-> <<>>]}
    \cup {[exists |-> TRUE, csvs |-> order] :
            order \in Permutations3(ThikaLate, ThikaEarly, VoiFile)}

\* glob.glob(os.path.join(folder_path, "*.csv"))
Glob(dir) == IF dir.exists THEN dir.csvs ELSE <<>>

kale == <<"k", "a", "l", "e">>
TEA == <<"T", "E", "A">>

\* Crop names a caller may pass: catalog keys, other spellings, unknown names
CropInputs == {tea, wheat, TEA, kale, <<>>}

LocationInputs == {thika, voi_ke, lamu}

MonthInputs == {2, 3, 13}

DayInputs == {21, 31}

\* The values datetime.now() may take
Clock == {Date(2024, 3, 24), Date(2025, 3, 10), Date(2026, 11, 4)}

\* The largest number of request threads
NumThreads == 2

Threads == 1..NumThreads

----------------------------------------------------------------------------
(* Frame objects *)

\* Mutant: boolean-mask indexing returning a view on the indexed object
BoolMaskSelect_view(objs, src, t, location) ==
    [frames |-> objs, ref |-> src]

\* weather[weather["name"] == location]: a new DataFrame object holding the
\* selected rows, bound to the calling thread's local_weather
BoolMaskSelect(objs, src, t, location) ==
    [frames |-> [objs EXCEPT ![t] =
                    Frame(objs[src].columns,
                          SelectSeq(objs[src].rows, LAMBDA r : r.name = location))],
     ref |-> t]

\* df[col] = values, df.loc[:, col] = values: one value per row
SetColumn(objs, ref, col, values) ==
    [objs EXCEPT ![ref] =
        Frame(objs[ref].columns \cup {col},
              [i \in DOMAIN objs[ref].rows |-> WithField(objs[ref].rows[i], col, values[i])])]

\* df.index
Index(objs, ref) == [i \in DOMAIN objs[ref].rows |-> objs[ref].rows[i].datetime]

\* The thread's local object is dropped when its handler returns
Release(objs, ref) == IF ref = 0 THEN objs ELSE [objs EXCEPT ![ref] = EmptyFrame]

----------------------------------------------------------------------------
(* Responses *)

NoResponse == [op |-> "none", kind |-> "none"]

Ok(op, body) == [op |-> op, kind |-> "ok", status |-> 200, body |-> body]

Error(op, status, error) == [op |-> op, kind |-> "error", status |-> status, error |-> error]

\* An exception no handler catches
Unhandled(op, exception) == [op |-> op, kind |-> "exception", exception |-> exception]

ForecastYear == 2025

NumericForecastColumns == {"tempmax", "tempmin", "temp", "humidity", "precip", "windspeed"}

\* One per-day average of the forecast handlers (the means are kept exact)
DayAverage(date, data, numeric) ==
    [date |-> date,
     conditions |-> MostFrequent([i \in DOMAIN data |-> data[i].conditions]),
     means |-> [c \in numeric |-> SumCells(data, c)]]

\* dict(threshold, name=crop) as the handlers leave it in the catalog
Named(threshold, crop) == WithField(threshold, "name", crop)

CropOrder == <<tea, coffee, wheat, bananas, rice, maize, beans, sukuma_wiki>>

----------------------------------------------------------------------------
(* app.py: the handlers *)

ROLLING_WINDOW_DAYS == 21

\* Mutant: the window starts ROLLING_WINDOW_DAYS days before its end
RollingWindowStart_off_by_one(week_end_for_query) ==
    AddDays(week_end_for_query, 0 - ROLLING_WINDOW_DAYS)

\* week_end_for_query - timedelta(days=ROLLING_WINDOW_DAYS - 1)
RollingWindowStart(week_end_for_query) ==
    AddDays(week_end_for_query, 0 - (ROLLING_WINDOW_DAYS - 1))

\* query_date + timedelta(days=(6 - query_date.weekday()))
WeekEnd(query_date) == AddDays(query_date, 6 - Weekday(query_date))

\* (index.date >= rolling_window_start.date()) & (index.date <= week_end_for_query.date())
InRollingWindow(date, week_end_for_query) ==
    /\ ToOrdinal(date) >= ToOrdinal(RollingWindowStart(week_end_for_query))
    /\ ToOrdinal(date) <= ToOrdinal(week_end_for_query)

\* The rows of frame whose name is location, in the frame's order
LocalRows(frame, location) == SelectSeq(frame.rows, LAMBDA r : r.name = location)

\* request.args.get('crop', '').lower(), crop.lower()
RequestedCrop(crop_arg) == Lower(crop_arg)

weekly_recommendations_response(weather, catalog, location, month, day, crop_arg) ==
    LET op == "get_weekly_recommendations"
        crop == RequestedCrop(crop_arg)
        local_weather == Frame(weather.columns, LocalRows(weather, location))
    IN  IF crop \notin DOMAIN catalog THEN Error(op, 400, "Unsupported crop")
        ELSE IF "name" \notin weather.columns THEN Unhandled(op, "KeyError: 'name'")
        ELSE IF local_weather.rows = <<>>
            THEN Error(op, 200, "No weather data found for location")
        ELSE IF ~IsValidDate(local_weather.rows[1].datetime.year, month, day)
            THEN Error(op, 400, "Invalid date.")
        ELSE
            LET query_date == Date(local_weather.rows[1].datetime.year, month, day)
                week_end_for_query == WeekEnd(query_date)
                rolling_weather ==
                    Frame(local_weather.columns,
                          SelectSeq(local_weather.rows,
                                    LAMBDA r : InRollingWindow(r.datetime, week_end_for_query)))
            IN  IF rolling_weather.rows = <<>>
                    THEN Error(op, 404, "No weather data available for the specified rolling period.")
                ELSE [op |-> op, kind |-> "ok", status |-> 200,
                      body |-> [crop |-> crop,
                                week_start |-> AddDays(query_date, 0 - Weekday(query_date)),
                                week_end |-> week_end_for_query,
                                recommendations |->
                                    get_recommendations(rolling_weather, crop, catalog)],
                      rolling_weather |-> rolling_weather]

\* Mutant: a name that is no key gets a threshold holding its name alone
crop_thresholds_response_default(catalog, crop_arg) ==
    LET crop == RequestedCrop(crop_arg)
    IN  Ok("get_crop_thresholds",
           Named(IF crop \in DOMAIN catalog THEN catalog[crop] ELSE [icon |-> ""], crop))

crop_thresholds_response(catalog, crop_arg) ==
    LET crop == RequestedCrop(crop_arg)
    IN  IF crop \notin DOMAIN catalog
            THEN Error("get_crop_thresholds", 400, "Unsupported crop")
            ELSE Ok("get_crop_thresholds", Named(catalog[crop], crop))

\* The crops of the catalog, in its order, that suit the location's rows
SuitableCrops(catalog, local_weather) ==
    SelectSeq(CropOrder, LAMBDA c : is_suitable_crop(local_weather, catalog[c]))

\* The per-day averages of get_this_weeks_weather for the days that have data
RECURSIVE WeekAverages(_, _)
WeekAverages(rows, upcoming_days) ==
    IF upcoming_days = <<>> THEN <<>>
    ELSE LET month_day == Head(upcoming_days)
             data == SelectSeq(rows, LAMBDA r : r.month_day = month_day)
         IN  (IF data # <<>>
                THEN <<DayAverage(<<ForecastYear, month_day[1], month_day[2]>>, data,
                                  NumericForecastColumns)>>
                ELSE <<>>)
             \o WeekAverages(rows, Tail(upcoming_days))

this_weeks_weather_response(local_weather, this_year, month, day) ==
    LET op == "get_this_weeks_weather"
    IN  IF ~IsValidDate(this_year, month, day)
            THEN Unhandled(op, "ValueError: datetime(this_year, month, day)")
        ELSE
            LET today == Date(this_year, month, day)
                upcoming_days == [offset \in 1..7 |-> MonthDay(AddDays(today, offset))]
                forecast == WeekAverages(local_weather.rows, upcoming_days)
            IN  IF forecast = <<>>
                    THEN Unhandled(op, "KeyError: 'date'")
                ELSE IF \E i \in DOMAIN forecast :
                            ~IsValidDate(forecast[i].date[1], forecast[i].date[2],
                                         forecast[i].date[3])
                    THEN Unhandled(op, "ValueError: pd.to_datetime")
                ELSE Ok(op, forecast)

todays_weather_response(local_weather, now) ==
    LET op == "get_todays_weather"
        month_day == MonthDay(now)
        data == SelectSeq(local_weather.rows, LAMBDA r : r.month_day = month_day)
    IN  IF data = <<>> THEN Ok(op, <<>>)
        ELSE IF ~IsValidDate(ForecastYear, month_day[1], month_day[2])
            THEN Unhandled(op, "ValueError: datetime.strptime")
        ELSE Ok(op, <<DayAverage(<<ForecastYear, month_day[1], month_day[2]>>, data,
                                 {"temp", "humidity", "precip"})>>)

\* The day name of the forecast date, NaT when the date does not exist
DayName(month, day) ==
    IF IsValidDate(ForecastYear, month, day)
        THEN Weekday(Date(ForecastYear, month, day)) ELSE 0 - 1

this_months_weather_response(local_weather, month) ==
    LET op == "get_this_months_weather"
        month_data == SelectSeq(local_weather.rows, LAMBDA r : r.month = month)
        days == Sorted({month_data[i].day : i \in DOMAIN month_data})
    IN  IF month_data = <<>> THEN Error(op, 404, "No weather data for this month")
        ELSE Ok(op, [i \in DOMAIN days |->
                        WithField(DayAverage(<<ForecastYear, month, days[i]>>,
                                             SelectSeq(month_data, LAMBDA r : r.day = days[i]),
                                             NumericForecastColumns),
                                  "day", DayName(month, days[i]))])

----------------------------------------------------------------------------
(* The server: start-up, then requests handled by its threads *)

\* Thread t takes the next request: the threads are alike, and the idle one
\* of lowest number is the one taken
Idle(t) ==
    /\ t \in 1..workers /\ pc[t] = "idle"
    /\ \A u \in 1..(t - 1) : pc[u] # "idle"

NoRequest == [op |-> "none"]

Serving == phase = "serving"

\* app.py line 8: weather = load_weather_data("weather_data")
Load ==
    /\ phase = "start"
    /\ phase' = "serving"
    /\ frames' = [frames EXCEPT ![0] = load_weather_data(Glob(folder))]
    /\ UNCHANGED <<fn, authVars, folder, workers, CROP_THRESHOLDS, pc, req, last>>

\* A handler that runs from its first line to its return on thread t and
\* leaves the catalog as newCatalog
Handle(t, response, newCatalog) ==
    /\ Serving /\ Idle(t)
    /\ last' = response
    /\ CROP_THRESHOLDS' = newCatalog
    /\ UNCHANGED <<fn, authVars, phase, folder, workers, frames, pc, req>>

get_all_crops(t) ==
    LET named == [c \in DOMAIN CROP_THRESHOLDS |-> Named(CROP_THRESHOLDS[c], c)]
    IN  Handle(t, Ok("get_all_crops", [i \in DOMAIN CropOrder |-> named[CropOrder[i]]]),
               named)

get_all_locations(t) ==
    Handle(t,
           IF "name" \notin frames[0].columns
               THEN Unhandled("get_all_locations", "KeyError: 'name'")
               ELSE Ok("get_all_locations",
                       Unique([i \in DOMAIN frames[0].rows |-> frames[0].rows[i].name])),
           CROP_THRESHOLDS)

get_crop_thresholds(t) ==
    \E crop_arg \in CropInputs :
        LET crop == RequestedCrop(crop_arg)
        IN  Handle(t,
                   WithField(crop_thresholds_response(CROP_THRESHOLDS, crop_arg),
                             "crop_arg", crop_arg),
                   IF crop \in DOMAIN CROP_THRESHOLDS
                       THEN [CROP_THRESHOLDS EXCEPT ![crop] = Named(@, crop)]
                       ELSE CROP_THRESHOLDS)

get_suitable_crops(t) ==
    \E location \in LocationInputs :
        LET op == "get_suitable_crops"
            local_weather == Frame(frames[0].columns, LocalRows(frames[0], location))
        IN  IF "name" \notin frames[0].columns
                THEN Handle(t, Unhandled(op, "KeyError: 'name'"), CROP_THRESHOLDS)
            ELSE IF local_weather.rows = <<>>
                THEN Handle(t, Error(op, 200, "No weather data found for location"),
                            CROP_THRESHOLDS)
            ELSE \E suitable \in {SuitableCrops(CROP_THRESHOLDS, local_weather)} :
                IF suitable = <<>>
                    THEN Handle(t, Error(op, 200, "No crops suitable to grow in location were found"),
                                CROP_THRESHOLDS)
                    ELSE Handle(t,
                                Ok(op, [i \in DOMAIN suitable |->
                                            Named(CROP_THRESHOLDS[suitable[i]], suitable[i])]),
                                [c \in DOMAIN CROP_THRESHOLDS |->
                                    IF c \in Range(suitable)
                                        THEN Named(CROP_THRESHOLDS[c], c)
                                        ELSE CROP_THRESHOLDS[c]])

\* The arguments are drawn as the handler comes to read them
get_weekly_recommendations(t) ==
    \E crop_arg \in CropInputs :
        IF RequestedCrop(crop_arg) \notin DOMAIN CROP_THRESHOLDS
            THEN Handle(t,
                        WithField(weekly_recommendations_response(
                                      frames[0], CROP_THRESHOLDS, lamu, 1, 1, crop_arg),
                                  "crop_arg", crop_arg),
                        CROP_THRESHOLDS)
        ELSE \E location \in LocationInputs :
            IF "name" \notin frames[0].columns \/ LocalRows(frames[0], location) = <<>>
                THEN Handle(t,
                            WithField(WithField(weekly_recommendations_response(
                                                    frames[0], CROP_THRESHOLDS, location,
                                                    1, 1, crop_arg),
                                                "location", location),
                                      "crop_arg", crop_arg),
                            CROP_THRESHOLDS)
            ELSE \E month \in MonthInputs, day \in DayInputs :
                Handle(t,
                       WithField(WithField(weekly_recommendations_response(
                                               frames[0], CROP_THRESHOLDS, location,
                                               month, day, crop_arg),
                                           "location", location),
                                 "crop_arg", crop_arg),
                       CROP_THRESHOLDS)

\* get_recommendations called with a station's rows and any crop name
call_get_recommendations(t) ==
    \E location \in LocationInputs, crop \in CropInputs :
        LET weather_data == Frame(frames[0].columns, LocalRows(frames[0], location))
            result == get_recommendations(weather_data, crop, CROP_THRESHOLDS)
        IN  Handle(t,
                   [op |-> "get_recommendations", kind |-> result.kind,
                    crop_arg |-> crop, body |-> result],
                   CROP_THRESHOLDS)

\* A forecast handler runs in two steps.  Its first lines select the rows of
\* the location into local_weather, and without any the handler returns.
\* From there on it works on local_weather alone: the column assignments,
\* the forecast and the return are its second step.
Begin(t, op, location, locals) ==
    /\ Serving /\ Idle(t)
    /\ UNCHANGED <<fn, authVars, phase, folder, workers, CROP_THRESHOLDS>>
    /\ IF "name" \notin frames[0].columns
        THEN /\ last' = Unhandled(op, "KeyError: 'name'")
             /\ UNCHANGED <<frames, pc, req>>
        ELSE LET selected == BoolMaskSelect(frames, 0, t, location)
             IN  IF selected.frames[selected.ref].rows = <<>>
                    THEN /\ last' = Error(op, 200, "No weather data found for location")
                         /\ frames' = Release(selected.frames, selected.ref)
                         /\ UNCHANGED <<pc, req>>
                    ELSE /\ frames' = selected.frames
                         /\ pc' = [pc EXCEPT ![t] = op \o ":columns"]
                         /\ req' = [req EXCEPT ![t] =
                                        WithField(WithField(locals, "op", op),
                                                  "local_weather", selected.ref)]
                         /\ last' = NoResponse

\* local_weather with the scratch columns the handler assigns to it
WithColumns(objs, ref, cols) ==
    LET index == Index(objs, ref)
        c1 == IF "month_day" \in cols
                THEN SetColumn(objs, ref, "month_day",
                               [i \in DOMAIN index |-> MonthDay(index[i])])
                ELSE objs
        c2 == IF "year" \in cols
                THEN SetColumn(c1, ref, "year", [i \in DOMAIN index |-> index[i].year])
                ELSE c1
        c3 == IF "month" \in cols
                THEN SetColumn(c2, ref, "month", [i \in DOMAIN index |-> index[i].month])
                ELSE c2
    IN  IF "day" \in cols
            THEN SetColumn(c3, ref, "day", [i \in DOMAIN index |-> index[i].day])
            ELSE c3

\* The rest of a forecast handler, up to its return: written is the frame
\* objects after the column assignments
Finish(t, op, written, response) ==
    /\ pc[t] = op \o ":columns"
    /\ last' = response
    /\ frames' = Release(written, req[t].local_weather)
    /\ pc' = [pc EXCEPT ![t] = "idle"]
    /\ req' = [req EXCEPT ![t] = NoRequest]
    /\ UNCHANGED <<fn, authVars, phase, folder, workers, CROP_THRESHOLDS>>

get_todays_weather_select(t) ==
    \E location \in LocationInputs :
        Begin(t, "get_todays_weather", location, [location |-> location])

get_todays_weather_forecast(t) ==
    /\ pc[t] = "get_todays_weather:columns"
    /\ \E now \in Clock :
        \E written \in {WithColumns(frames, req[t].local_weather, {"month_day", "year"})} :
            Finish(t, "get_todays_weather", written,
                   todays_weather_response(written[req[t].local_weather], now))

get_this_weeks_weather_select(t) ==
    \E location \in LocationInputs :
        Begin(t, "get_this_weeks_weather", location, [location |-> location])

get_this_weeks_weather_forecast(t) ==
    /\ pc[t] = "get_this_weeks_weather:columns"
    /\ \E now \in Clock, month \in MonthInputs, day \in DayInputs :
        \E written \in {WithColumns(frames, req[t].local_weather, {"month_day", "year"})} :
            Finish(t, "get_this_weeks_weather", written,
                   this_weeks_weather_response(written[req[t].local_weather],
                                               now.year, month, day))

get_this_months_weather_select(t) ==
    \E location \in LocationInputs, month \in MonthInputs :
        IF month < 1 \/ month > 12
            THEN Handle(t, Error("get_this_months_weather", 400, "Invalid month. Use 1-12."),
                        CROP_THRESHOLDS)
            ELSE Begin(t, "get_this_months_weather", location,
                       [location |-> location, month |-> month])

get_this_months_weather_forecast(t) ==
    /\ pc[t] = "get_this_months_weather:columns"
    /\ \E written \in {WithColumns(frames, req[t].local_weather,
                                   {"month_day", "year", "month", "day"})} :
            Finish(t, "get_this_months_weather", written,
                   this_months_weather_response(written[req[t].local_weather],
                                                req[t].month))

ServerStart(dirs, n) ==
    /\ phase = "start"
    /\ folder \in dirs
    /\ workers = n
    /\ frames = [i \in 0..NumThreads |-> EmptyFrame]
    /\ CROP_THRESHOLDS = InitialCropThresholds
    /\ pc = [t \in Threads |-> "idle"]
    /\ req = [t \in Threads |-> NoRequest]
    /\ last = NoResponse
    /\ users = <<>>
    /\ otps = <<>>
    /\ wall_clock = 0
    /\ resets = <<>>

\* One request thread, any source directory
Init == fn = [name |-> "none"] /\ ServerStart(Folders, 1)

\* NumThreads request threads over the three files in one order
InitConcurrent ==
    /\ fn = [name |-> "none"]
    /\ ServerStart({[exists |-> TRUE, csvs |-> <<ThikaLate, ThikaEarly, VoiFile>>]}, NumThreads)

Next ==
    \/ Load
    \/ \E t \in Threads :
        \/ get_all_crops(t)
        \/ get_all_locations(t)
        \/ get_crop_thresholds(t)
        \/ get_suitable_crops(t)
        \/ get_weekly_recommendations(t)
        \/ call_get_recommendations(t)
        \/ get_todays_weather_select(t)
        \/ get_todays_weather_forecast(t)
        \/ get_this_weeks_weather_select(t)
        \/ get_this_weeks_weather_forecast(t)
        \/ get_this_months_weather_select(t)
        \/ get_this_months_weather_forecast(t)

Spec == Init /\ [][Next]_vars

\* The handlers that read the global weather, on NumThreads threads
NextConcurrent ==
    \/ Load
    \/ \E t \in Threads :
        \/ get_suitable_crops(t)
        \/ get_weekly_recommendations(t)
        \/ get_todays_weather_select(t)
        \/ get_todays_weather_forecast(t)
        \/ get_this_weeks_weather_select(t)
        \/ get_this_weeks_weather_forecast(t)
        \/ get_this_months_weather_select(t)
        \/ get_this_months_weather_forecast(t)

SpecConcurrent == InitConcurrent /\ [][NextConcurrent]_vars

----------------------------------------------------------------------------
(* auth.py: accounts and password-reset OTPs *)

RECURSIVE Contains(_, _)
\* sub in s
Contains(s, sub) ==
    IF Len(s) < Len(sub) THEN FALSE
    ELSE SubSeq(s, 1, Len(sub)) = sub \/ Contains(Tail(s), sub)

\* User.validate_email
validate_email(email) ==
    Contains(email, <<"@">>) /\ Contains(email, <<".", "c", "o", "m">>)

\* User.check_email_exists; User.query.filter_by(email=email).first() is not None
check_email_exists(email) == email \in DOMAIN users

\* generate_password_hash and check_password_hash
generate_password_hash(password) == <<"hash", password>>

check_password(user, password) == user.password_hash = generate_password_hash(password)

amina == <<"a", "@", "k", ".", "c", "o", "m">>
no_at_sign == <<"a", ".", "c", "o", "m">>

EmailInputs == {amina, no_at_sign}

UsernameInputs == {"", "farmer"}

PasswordInputs == {"", "maize1"}

\* OTP.generate_otp(): six random digits of 1..9
OtpValues == {"111111", "987654"}

\* datetime.timedelta(minutes=15)
OTP_EXPIRY_MINUTES == 15

\* The latest time of the clock and the most rows and resets of a run
MaxTime == 20

MaxOtps == 2

MaxResets == 2

\* The minutes that pass between two requests
ClockSteps == {10}

AuthResponse(op, status, msg) ==
    [op |-> op, kind |-> IF status < 400 THEN "ok" ELSE "error", status |-> status,
     msg |-> msg]

\* The response of reset_password, with the email and otp it was asked with
ResetResponse(email, otp, status, msg) ==
    [op |-> "reset_password", kind |-> IF status < 400 THEN "ok" ELSE "error",
     status |-> status, msg |-> msg, email |-> email, otp |-> otp]

WithUser(table, email, user) ==
    [e \in DOMAIN table \cup {email} |-> IF e = email THEN user ELSE table[e]]

\* OTP.query.filter(email, otp, expiry_time > now, is_used == False)
ValidOtpRows(rows, email, otp, time) ==
    {i \in DOMAIN rows :
        /\ rows[i].email = email
        /\ rows[i].otp = otp
        /\ rows[i].expiry_time > time
        /\ rows[i].is_used = FALSE}

AuthStep(response) ==
    /\ last' = response
    /\ UNCHANGED <<fn, phase, folder, workers, frames, CROP_THRESHOLDS, pc, req>>

register ==
    \E username \in UsernameInputs, email \in EmailInputs, password \in PasswordInputs :
        IF username = "" \/ email = <<>> \/ password = ""
            THEN /\ AuthStep(AuthResponse("register", 400,
                                          "Username, email and password are required"))
                 /\ UNCHANGED authVars
        ELSE IF ~validate_email(email)
            THEN /\ AuthStep(AuthResponse("register", 400, "Invalid email address"))
                 /\ UNCHANGED authVars
        ELSE IF check_email_exists(email)
            THEN /\ AuthStep(AuthResponse("register", 400, "User already exists"))
                 /\ UNCHANGED authVars
        ELSE /\ users' = WithUser(users, email,
                                  [username |-> username,
                                   password_hash |-> generate_password_hash(password)])
             /\ AuthStep(AuthResponse("register", 201, "User registered successfully"))
             /\ UNCHANGED <<otps, wall_clock, resets>>

login ==
    \E email \in EmailInputs, password \in PasswordInputs :
        /\ IF email \notin DOMAIN users \/ ~check_password(users[email], password)
                THEN AuthStep(AuthResponse("login", 401, "Invalid username or password"))
                ELSE AuthStep(AuthResponse("login", 200, "Logged in successfully"))
        /\ UNCHANGED authVars

forgot_password ==
    \E email \in EmailInputs :
        /\ IF email \notin DOMAIN users
                THEN UNCHANGED otps
                ELSE /\ Len(otps) < MaxOtps
                     /\ \E otp \in OtpValues :
                            otps' = Append(otps, [email |-> email, otp |-> otp,
                                                  expiry_time |-> wall_clock + OTP_EXPIRY_MINUTES,
                                                  is_used |-> FALSE])
        /\ AuthStep(AuthResponse("forgot_password", 200,
                                 "Password reset OTP sent to your email"))
        /\ UNCHANGED <<users, wall_clock, resets>>

reset_password ==
    \E email \in EmailInputs, otp \in OtpValues :
      \E new_password \in PasswordInputs, confirm_new_password \in PasswordInputs :
        LET found == ValidOtpRows(otps, email, otp, wall_clock)
            otp_record == CHOOSE i \in found : \A j \in found : i <= j
        IN  IF new_password # confirm_new_password
                THEN /\ AuthStep(ResetResponse(email, otp, 400,
                                    "New Password and Confirm New Password do NOT match"))
                     /\ UNCHANGED authVars
            ELSE IF found = {}
                THEN /\ AuthStep(ResetResponse(email, otp, 400, "Invalid or expired OTP"))
                     /\ UNCHANGED authVars
            ELSE IF email \notin DOMAIN users
                THEN /\ AuthStep(ResetResponse(email, otp, 400,
                                    "No account found with this email"))
                     /\ UNCHANGED authVars
            ELSE /\ Len(resets) < MaxResets
                 /\ users' = [users EXCEPT ![email].password_hash =
                                                generate_password_hash(new_password)]
                 /\ resets' = Append(resets, otp_record)
                 /\ AuthStep(ResetResponse(email, otp, 200, "Password reset successfully"))
                 /\ UNCHANGED <<otps, wall_clock>>

\* Time passes between two requests
Tick ==
    \E minutes \in ClockSteps :
        /\ wall_clock + minutes <= MaxTime
        /\ wall_clock' = wall_clock + minutes
        /\ UNCHANGED <<fn, phase, folder, workers, frames, CROP_THRESHOLDS, pc, req, last>>
        /\ UNCHANGED <<users, otps, resets>>

InitAuth ==
    /\ fn = [name |-> "none"]
    /\ ServerStart({[exists |-> FALSE, csvs |-> <<>>]}, 1)

NextAuth ==
    \/ register
    \/ login
    \/ forgot_password
    \/ reset_password
    \/ Tick

SpecAuth == InitAuth /\ [][NextAuth]_vars

----------------------------------------------------------------------------
(* Applications of the pure functions to inputs drawn from bounded sets *)

\* The longest frame handed to a pure function
MaxRows == 2

\* The longest text given to clean_string_column
MaxLen == 3

\* Characters of both cases, the space, the comma and the underscore
Alphabet == {"T", "h", " ", ",", "_"}

ConditionRows ==
    [precip : {0, 40, 41, 50, NaN},
     cloudcover : {0, 14, 15, 40, 41, 80, 81, 90, NaN},
     solarradiation : {0, 500, 501, NaN},
     humidity : {0, 70, 71, NaN}]

\* Rows around the bounds of one threshold
AdvisoryRows(th) ==
    [temp : {th.min_temp - 1, th.min_temp, th.max_temp},
     precip : {0, 6, Tenths(th.min_precip) - 1, Tenths(th.min_precip),
               Tenths(th.max_precip), Tenths(th.max_precip) + 1},
     humidity : {th.max_humidity, th.max_humidity + 1},
     solarradiation : {th.min_solarradiation}]

SuitabilityRows(th) ==
    [temp : {th.min_temp - 1, th.min_temp, th.max_temp, th.max_temp + 1},
     precip : {Tenths(th.min_precip) - 1, Tenths(th.max_precip)},
     humidity : {th.min_humidity, th.max_humidity + 1, NaN},
     solarradiation : {th.min_solarradiation - 1, th.max_solarradiation},
     year : {2024},
     season : {"JFM"}]

NoCall == [name |-> "none"]

\* While a pure function is applied the server stands still, not yet started
ServerIdle == ServerStart({[exists |-> FALSE, csvs |-> <<>>]}, 1)

\* The thresholds the advisory inputs are drawn around: the crop's own, or
\* wheat's for a name that is no catalog key
InputThreshold(crop) ==
    IF crop \in CropNames THEN InitialCropThresholds[crop] ELSE InitialCropThresholds[wheat]

\* A call about to be made: the function, its arguments, no result yet
ConditionCall(row) ==
    [name |-> "group_weather_conditions", done |-> FALSE, row |-> row]

AdvisoryCall(crop, rows) ==
    [name |-> "get_recommendations", done |-> FALSE, crop |-> crop,
     weather_data |-> Frame(RequiredCols, rows)]

SuitabilityCall(crop, rows) ==
    [name |-> "is_suitable_crop", done |-> FALSE, crop |-> crop,
     weather_data |-> Frame(RequiredCols \cup {"year", "season"}, rows)]

\* data[col].mode() on the conditions of one group of rows
ModeCall(conditions) ==
    [name |-> "mode", done |-> FALSE, conditions |-> conditions]

CleanCall(s) ==
    [name |-> "clean_string_column", done |-> FALSE, cleaned |-> 0, s |-> s,
     again |-> <<>>]

Returned(call, result) ==
    [k \in DOMAIN call \cup {"result"} |->
        IF k = "result" THEN result ELSE IF k = "done" THEN TRUE ELSE call[k]]

Called(name) == fn.name = name /\ fn.done

Apply_group_weather_conditions ==
    /\ fn.name = "group_weather_conditions" /\ ~fn.done
    /\ fn' = Returned(fn, group_weather_conditions(fn.row))
    /\ UNCHANGED serverVars

Apply_get_recommendations ==
    /\ fn.name = "get_recommendations" /\ ~fn.done
    /\ fn' = Returned(fn, get_recommendations(fn.weather_data, fn.crop,
                                              CROP_THRESHOLDS))
    /\ UNCHANGED serverVars

Apply_is_suitable_crop ==
    /\ fn.name = "is_suitable_crop" /\ ~fn.done
    /\ fn' = Returned(fn, is_suitable_crop(fn.weather_data,
                                           CROP_THRESHOLDS[fn.crop]))
    /\ UNCHANGED serverVars

\* mode_values.iloc[0] of the conditions of a group
Apply_mode ==
    /\ fn.name = "mode" /\ ~fn.done
    /\ fn' = Returned(fn, MostFrequent(fn.conditions))
    /\ UNCHANGED serverVars

\* clean_string_column on a column, and once more on the column it returned
Apply_clean_string_column ==
    /\ fn.name = "clean_string_column" /\ fn.cleaned < 2
    /\ fn' = IF ~fn.done
                THEN [Returned(fn, CleanString(fn.s)) EXCEPT !.cleaned = 1]
                ELSE [fn EXCEPT !.cleaned = 2, !.again = CleanString(fn.result)]
    /\ UNCHANGED serverVars

InitFn ==
    /\ ServerIdle
    /\ \/ \E row \in ConditionRows : fn = ConditionCall(row)
       \/ \E k \in 1..MaxRows : \E conditions \in [1..k -> ConditionLabels] :
            fn = ModeCall(conditions)
       \/ \E k \in 0..MaxLen : \E s \in [1..k -> Alphabet] : fn = CleanCall(s)
       \/ \E crop \in CropInputs, k \in 0..MaxRows :
            \E rows \in [1..k -> AdvisoryRows(InputThreshold(crop))] :
                fn = AdvisoryCall(crop, rows)
       \/ \E crop \in {tea, wheat}, k \in 0..MaxRows :
            \E rows \in [1..k -> SuitabilityRows(InitialCropThresholds[crop])] :
                fn = SuitabilityCall(crop, rows)

NextFn ==
    \/ Apply_group_weather_conditions
    \/ Apply_get_recommendations
    \/ Apply_is_suitable_crop
    \/ Apply_mode
    \/ Apply_clean_string_column

SpecFn == InitFn /\ [][NextFn]_vars

----------------------------------------------------------------------------
(* Claims about the pure functions, checked under SpecFn *)

\* C1: for every record, group_weather_conditions returns exactly one label of
\* {rain, overcast, sunny, partially_cloudy, clear}, chosen by strict
\* priority: precip > 4.0 gives rain; otherwise cloudcover > 80 gives
\* overcast; otherwise cloudcover < 15 and solarradiation > 500 gives sunny;
\* otherwise cloudcover > 40 or humidity > 70 gives partially_cloudy;
\* otherwise clear.  precip = 5 with cloudcover = 90 gives rain.
C1_ClassifyPriority ==
    Called("group_weather_conditions") =>
        LET r == fn.row
            has(v) == v # NaN
            rainy == has(r.precip) /\ r.precip > 40
            grey == has(r.cloudcover) /\ r.cloudcover > 80
            bright == has(r.cloudcover) /\ r.cloudcover < 15
                        /\ has(r.solarradiation) /\ r.solarradiation > 500
            partly == (has(r.cloudcover) /\ r.cloudcover > 40)
                        \/ (has(r.humidity) /\ r.humidity > 70)
        IN  /\ fn.result \in ConditionLabels
            /\ (fn.result = rain) <=> rainy
            /\ (fn.result = overcast) <=> (~rainy /\ grey)
            /\ (fn.result = sunny) <=> (~rainy /\ ~grey /\ bright)
            /\ (fn.result = partially_cloudy) <=> (~rainy /\ ~grey /\ ~bright /\ partly)
            /\ (fn.result = clear) <=> (~rainy /\ ~grey /\ ~bright /\ ~partly)
            /\ (r.precip = 50 /\ r.cloudcover = 90) => fn.result = rain

C1_Witness ==
    /\ Called("group_weather_conditions")
    /\ fn.row.precip = 50 /\ fn.row.cloudcover = 90
    /\ fn.result = rain

\* The messages of a returned advisory list, as a set
Advised == {fn.result.recommendations[i] : i \in DOMAIN fn.result.recommendations}

AdvisoryReturned ==
    Called("get_recommendations") /\ fn.result.kind = "ok"

\* C2: in get_recommendations, when avg_precip <= max_precip, the planting
\* branch is selected by the crop's min_temp: 'Good conditions for planting'
\* exactly when avg_temp >= min_temp and min_precip <= avg_precip <=
\* max_precip; otherwise 'Temp too low' exactly when avg_temp < min_temp;
\* otherwise, when avg_precip < min_precip, the low-rainfall message
\* ('currently raining, monitor' if latest_precip > 0.5, else 'irrigation may
\* be needed').
C2_PlantingByMinTemp ==
    AdvisoryReturned =>
        LET th == InitialCropThresholds[fn.crop]
            rows == fn.weather_data.rows
            n == Len(rows)
            sumTemp == SumCells(rows, "temp").sum
            sumPrecip == SumCells(rows, "precip").sum
            latest == rows[n].precip
            good == /\ sumTemp >= th.min_temp * n
                    /\ sumPrecip >= 10 * th.min_precip * n
                    /\ sumPrecip <= 10 * th.max_precip * n
            cold == ~good /\ sumTemp < th.min_temp * n
            dry == ~good /\ ~cold /\ sumPrecip < 10 * th.min_precip * n
        IN  (n > 0 /\ sumPrecip <= 10 * th.max_precip * n) =>
                /\ ("Good conditions for planting {crop}." \in Advised) <=> good
                /\ ("Temp too low. Wait for warmer conditions." \in Advised) <=> cold
                /\ ("Avg rain low, but currently raining. Monitor closely." \in Advised)
                        <=> (dry /\ latest > 5)
                /\ ("Rainfall too low. Irrigation may be needed." \in Advised)
                        <=> (dry /\ latest <= 5)

\* The range checks of one record that a threshold's bounds satisfy
ChecksMet(row, th) ==
    {c \in {"temp", "precip", "humidity", "solarradiation"} :
        LET scale == IF c = "precip" THEN 10 ELSE 1
            lo == scale * th["min_" \o c]
            hi == scale * th["max_" \o c]
        IN  row[c] # NaN /\ lo <= row[c] /\ row[c] <= hi}

\* C10: is_suitable_crop(records, threshold) is true if and only if at least
\* one record satisfies at least 3 of the 4 inclusive range checks (temp,
\* precip, humidity, solarradiation); a record meeting only 2 of 4 never
\* counts, and an empty record set is never suitable.
C10_SuitableIffThreeOfFour ==
    Called("is_suitable_crop") =>
        LET rows == fn.weather_data.rows
            th == InitialCropThresholds[fn.crop]
        IN  /\ fn.result <=>
                    \E i \in DOMAIN rows : Cardinality(ChecksMet(rows[i], th)) >= 3
            /\ (\A i \in DOMAIN rows : Cardinality(ChecksMet(rows[i], th)) <= 2)
                    => ~fn.result
            /\ rows = <<>> => ~fn.result

C10_Witness ==
    /\ Called("is_suitable_crop")
    /\ fn.result
    /\ Len(fn.weather_data.rows) = 2
    /\ Cardinality(ChecksMet(fn.weather_data.rows[1], InitialCropThresholds[fn.crop])) = 2
    /\ Cardinality(ChecksMet(fn.weather_data.rows[2], InitialCropThresholds[fn.crop])) = 3

----------------------------------------------------------------------------
(* Claims about the server, checked under Spec and SpecConcurrent *)

\* C3: after any sequence of query operations every entry of the
\* CROP_THRESHOLDS catalog is identical to its initial definition: no key is
\* added, removed or changed in the stored threshold.
C3_CatalogUnchanged == CROP_THRESHOLDS = InitialCropThresholds

\* The frame objects the threads in a handler hold
InFlight == {t \in Threads : pc[t] # "idle"}

\* C4: the global weather built by load_weather_data is never mutated after
\* load: under any interleaving of the handlers that read it, the scratch
\* columns are written to per-call local copies only, so weather's rows and
\* columns equal the loaded value in every state, and no handler finds
\* another handler's derived columns in the rows it selected.
C4_DatasetNeverMutated ==
    /\ frames[0] = (IF Serving THEN load_weather_data(Glob(folder)) ELSE EmptyFrame)
    /\ \A t \in InFlight :
        /\ req[t].local_weather # 0
        /\ frames[req[t].local_weather].columns = frames[0].columns
        /\ \A u \in InFlight \ {t} : req[u].local_weather # req[t].local_weather

C4_Witness ==
    /\ last.op = "get_this_months_weather" /\ last.kind = "ok"
    /\ \E t \in Threads : pc[t] = "get_todays_weather:columns"

AsksForCrop ==
    last.op \in {"get_recommendations", "get_weekly_recommendations", "get_crop_thresholds"}

\* The explicit unknown-crop outcome of the three operations
UnknownCropOutcome ==
    IF last.op = "get_recommendations"
        THEN last.body.kind = "error" /\ last.body.error = "Unsupported crop"
        ELSE last.kind = "error" /\ last.status = 400 /\ last.error = "Unsupported crop"

\* C5 as stated: a crop name that is not a key of CROP_THRESHOLDS, passed to
\* get_recommendations, get_weekly_recommendations or get_crop_thresholds,
\* always yields the explicit unknown-crop error, never a normal advisory or
\* threshold result.
C5_UnknownCropRejected ==
    (AsksForCrop /\ last.crop_arg \notin CropNames) => UnknownCropOutcome

\* C5, amended: the two handlers lower-case the name first, so the names they
\* reject are those whose lower-case form is not a key; get_recommendations
\* rejects every name that is not itself a key.
C5_UnknownCropRejectedAfterLowering ==
    AsksForCrop =>
        LET looked_up == IF last.op = "get_recommendations"
                            THEN last.crop_arg ELSE Lower(last.crop_arg)
        IN  looked_up \notin CropNames => UnknownCropOutcome

C5_Witness ==
    /\ last.op = "get_crop_thresholds"
    /\ last.crop_arg = kale
    /\ last.kind = "error"

\* C6: every query-time operation, for every combination of location, month,
\* day and crop inputs, returns either a normal result or a structured error
\* result; none terminates with an unhandled exception.  Stated for a server
\* whose directory holds CSV files.
C6_NoUnhandledException ==
    Glob(folder) # <<>> => last.kind # "exception"

\* C7: load_weather_data fails when the directory is missing or contains no
\* CSV file; it never returns a dataset in that case, so the server never
\* comes to serve queries from an absent dataset.
C7_LoadFailsWithoutCsv ==
    Glob(folder) = <<>> => (~Serving /\ last = NoResponse)

\* C8: the rolling window of 21 days ending on E selects exactly the
\* requested location's records r with E-20 <= r.date <= E, both bounds
\* inclusive; no record dated E-21 or E+1 is selected.  For E = 2024-03-21
\* the window is exactly 2024-03-01 through 2024-03-21.
C8_RollingWindowBounds ==
    /\ (last.op = "get_weekly_recommendations" /\ last.kind = "ok") =>
        LET E == ToOrdinal(last.body.week_end)
            selected == Range(last.rolling_weather.rows)
        IN  /\ selected = {r \in Range(frames[0].rows) :
                            /\ r.name = last.location
                            /\ E - 20 <= ToOrdinal(r.datetime)
                            /\ ToOrdinal(r.datetime) <= E}
            /\ \A r \in selected : ToOrdinal(r.datetime) \notin {E - 21, E + 1}
            /\ Len(last.rolling_weather.rows) = Cardinality(selected)
    /\ \A m \in {2, 3}, d \in 1..29 :
        InRollingWindow(Date(2024, m, d), Date(2024, 3, 21)) <=> (m = 3 /\ d <= 21)

C8_Witness ==
    /\ last.op = "get_weekly_recommendations" /\ last.kind = "ok"
    /\ last.location = thika
    /\ last.body.week_end = Date(2024, 3, 24)
    /\ {r.datetime : r \in Range(last.rolling_weather.rows)}
            = {Date(2024, 3, 4), Date(2024, 3, 24)}
    /\ {Date(2024, 3, 3), Date(2024, 3, 25)}
            \subseteq {r.datetime : r \in {x \in Range(frames[0].rows) : x.name = thika}}

\* C9: the latest_precip that get_recommendations uses is the precip of the
\* chronologically last record of the window passed in, for every order in
\* which the source files were concatenated at load.
C9_LatestPrecipIsChronologicallyLast ==
    (last.op = "get_weekly_recommendations" /\ last.kind = "ok") =>
        LET window == Range(last.rolling_weather.rows)
            newest == CHOOSE r \in window :
                        \A x \in window : ToOrdinal(x.datetime) <= ToOrdinal(r.datetime)
        IN  RecentPrecip(last.rolling_weather) = newest.precip

----------------------------------------------------------------------------
(* Claims about the mode, the advisory list and the normalizer, checked
   under SpecFn *)

\* The tokens of a group with the highest occurrence count
TopCounted(group) ==
    {v \in Range(group) :
        \A w \in Range(group) :
            Cardinality({i \in DOMAIN group : group[i] = w})
                <= Cardinality({i \in DOMAIN group : group[i] = v})}

TokenOrder == <<clear, overcast, partially_cloudy, rain, sunny>>

TokenRank(v) == CHOOSE i \in DOMAIN TokenOrder : TokenOrder[i] = v

RuleGroup(message) ==
    CASE message \in {"High avg rain. Good conditions for planting {crop}.",
                      "Good conditions for planting {crop}.",
                      "Temp too low. Wait for warmer conditions.",
                      "Avg rain low, but currently raining. Monitor closely.",
                      "Rainfall too low. Irrigation may be needed."} -> 1
      [] message \in {"Very low avg rain. Apply irrigation.",
                      "Very low avg rain, but currently raining. Monitor water levels."} -> 2
      [] message \in {"Excessive avg rain. High waterlogging risk. Ensure drainage.",
                      "High recent rain. Potential waterlogging risk. Monitor."} -> 3
      [] message \in {"Favorable for fertilizer application.",
                      "Favorable for fertilizer, but currently raining. Apply after rain subsides."} -> 4
      [] message = "Good for harvesting {crop}." -> 5
      [] OTHER -> 0

\* An advisory list returned for a known crop and a window of numeric records
NumericAdvisory ==
    AdvisoryReturned /\ Len(fn.weather_data.rows) > 0

\* C12: the advisory list of get_recommendations for a known crop contains at
\* most one message from each of the five rule groups, always in the order
\* planting, irrigation, waterlogging, fertilizer, harvesting; the irrigation,
\* waterlogging, fertilizer and harvesting groups are evaluated whichever
\* planting branch fired; and when avg_precip > max_precip the only
\* planting-group message is the 'High avg rain' one.
C12_OneMessagePerGroupInOrder ==
    NumericAdvisory =>
        LET msgs == fn.result.recommendations
            th == InitialCropThresholds[fn.crop]
            rows == fn.weather_data.rows
            n == Len(rows)
            sumTemp == SumCells(rows, "temp").sum
            sumPrecip == SumCells(rows, "precip").sum
            sumHumidity == SumCells(rows, "humidity").sum
            latest == rows[n].precip
            raining == latest > 5
            veryLow == 2 * sumPrecip < 10 * th.min_precip * n
            excessive == 10 * sumPrecip > 12 * 10 * th.max_precip * n
            fair == sumTemp >= 10 * n /\ sumTemp <= 29 * n /\ sumPrecip < 100 * n
        IN  /\ \A i, j \in DOMAIN msgs : i < j => RuleGroup(msgs[i]) < RuleGroup(msgs[j])
            /\ ("Very low avg rain. Apply irrigation." \in Advised)
                    <=> (veryLow /\ ~raining)
            /\ ("Very low avg rain, but currently raining. Monitor water levels." \in Advised)
                    <=> (veryLow /\ raining)
            /\ ("Excessive avg rain. High waterlogging risk. Ensure drainage." \in Advised)
                    <=> excessive
            /\ ("High recent rain. Potential waterlogging risk. Monitor." \in Advised)
                    <=> (~excessive /\ 2 * latest > 10 * th.max_precip)
            /\ ("Favorable for fertilizer application." \in Advised)
                    <=> (fair /\ ~raining /\ latest < 50)
            /\ ("Favorable for fertilizer, but currently raining. Apply after rain subsides."
                    \in Advised) <=> (fair /\ raining)
            /\ ("Good for harvesting {crop}." \in Advised)
                    <=> (sumPrecip <= 10 * th.min_precip * n
                            /\ sumHumidity <= th.max_humidity * n)
            /\ sumPrecip > 10 * th.max_precip * n =>
                    {m \in Advised : RuleGroup(m) = 1}
                        = {"High avg rain. Good conditions for planting {crop}."}

C12_Witness ==
    /\ NumericAdvisory
    /\ SumCells(fn.weather_data.rows, "temp").sum
            < InitialCropThresholds[fn.crop].max_temp * Len(fn.weather_data.rows)
    /\ fn.result.recommendations
            = <<"High avg rain. Good conditions for planting {crop}.",
                "High recent rain. Potential waterlogging risk. Monitor.">>

\* C14: for every known crop and every numeric combination of avg_temp,
\* avg_precip and latest_precip, the planting chain of get_recommendations
\* emits exactly one planting-group message; the returned list is never
\* empty and the 'No specific recommendations' fallback is never produced.
C14_ExactlyOnePlantingMessage ==
    NumericAdvisory =>
        LET msgs == fn.result.recommendations
        IN  /\ Cardinality({i \in DOMAIN msgs : RuleGroup(msgs[i]) = 1}) = 1
            /\ msgs # <<>>
            /\ "No specific recommendations for current conditions." \notin Advised

C14_Witness ==
    /\ NumericAdvisory
    /\ SumCells(fn.weather_data.rows, "temp").sum
            >= InitialCropThresholds[fn.crop].max_temp * Len(fn.weather_data.rows)
    /\ SumCells(fn.weather_data.rows, "precip").sum
            < 10 * InitialCropThresholds[fn.crop].min_precip * Len(fn.weather_data.rows)
    /\ "Rainfall too low. Irrigation may be needed." \in Advised

\* C13: clean_string_column is idempotent: for every string over letters of
\* both cases, spaces, commas and underscores, normalizing the normalized
\* value returns it unchanged, and the normalized value contains no space,
\* no comma and no upper-case letter.
C13_CleanIdempotent ==
    (fn.name = "clean_string_column" /\ fn.done) =>
        /\ \A i \in DOMAIN fn.result :
                fn.result[i] \notin {" ", ","} \cup Range(UpperCase)
        /\ fn.cleaned = 2 => fn.again = fn.result

C13_Witness ==
    /\ fn.name = "clean_string_column" /\ fn.cleaned = 2
    /\ fn.s = <<"T", " ", ",">>
    /\ fn.result = <<"t", "_">>
    /\ fn.again = <<"t", "_">>

----------------------------------------------------------------------------
(* Claims about the password reset, checked under SpecAuth *)

\* C15: a password-reset OTP is single-use: once reset_password has succeeded
\* with a given (email, otp) record, every later reset_password presenting
\* the same email and otp is rejected with 'Invalid or expired OTP' and
\* leaves the password unchanged, also before the 15-minute expiry: no OTP
\* record ever serves two successful resets.
C15_OtpSingleUse ==
    \A i, j \in DOMAIN resets : resets[i] = resets[j] => i = j

=============================================================================
